---------------------------- MODULE Spec2Model ----------------------------
(***************************************************************************)
(* A model of models/nn_models/UnetLogoInsertion.py: the banner detector   *)
(* (detect_banner / __check_contours), the corner stabilisation            *)
(* (__smooth_points / __smooth_series), the replay of the stabilised       *)
(* corners (__load_points) and the compositor (insert_logo /               *)
(* __adjust_logo_shape).                                                   *)
(*                                                                         *)
(* Numbers.  The program computes in floating point.  Here every length    *)
(* and coordinate is an integer number of TENTHS of a pixel, every angle   *)
(* an integer number of tenths of a degree, and every operation rounds to  *)
(* the nearest tenth.  Python's None is the empty tuple << >>, a value v   *)
(* that may be None is <<v>>.  An exception a handler raises is recorded   *)
(* in the variable raised, with the state as the handler left it.          *)
(***************************************************************************)
EXTENDS Integers, Sequences, FiniteSets, TLC

VARIABLES
    model_parameters,      \* the YAML configuration (a record)
    video,                 \* the frames the caller feeds, one scene per frame
    called,                \* the last call the caller made
    raised,                \* "none", or the exception that ended the last call
    frame,                 \* self.frame: [num, painted]
    detected_mask,         \* self.detected_mask: None or <<[rows, cells]>>
    detection_successful,  \* self.detection_successful
    corners,               \* self.corners: None or <<tl, br, tr, bl>>
    old_width,             \* self.old_width: None or <<width>>
    center_left,           \* self.center_left: None or <<x>>
    center_right,          \* self.center_right: None or <<x>>
    frame_num,             \* self.frame_num
    before_smoothing,      \* self.before_smoothing
    load_smooth,           \* self.load_smooth
    saved_points,          \* self.saved_points: frame label -> corner record
    saved_frame_mask,      \* the files saved_frame_mask/frame<n>.npy
    pts2,                  \* the target quad last handed to getPerspectiveTransform
    smooth_runs,           \* how many times __smooth_points has been entered
    points_before,         \* saved_points as the last __smooth_points found it
    unstable,              \* the columns unstable_left / unstable_right
    series,                \* the argument of the last __smooth_series call
    smoothed               \* the outcome of the last __smooth_series call

vars == <<model_parameters, video, called, raised, frame, detected_mask,
          detection_successful, corners, old_width, center_left, center_right,
          frame_num, before_smoothing, load_smooth, saved_points,
          saved_frame_mask, pts2, smooth_runs, points_before, unstable, series,
          smoothed>>

None == << >>

\* F(e) with e evaluated once, before F is applied.
Bind(e, F(_)) == CHOOSE r \in {F(v) : v \in {e}} : TRUE

----------------------------------------------------------------------------
(* Arithmetic on tenths.                                                   *)

Abs(x) == IF x < 0 THEN -x ELSE x

Max(a, b) == IF a >= b THEN a ELSE b

Min(a, b) == IF a <= b THEN a ELSE b

\* a / b rounded to the nearest integer (b # 0), halves away from zero.
RDiv(a, b) ==
    LET n == Abs(a)
        d == Abs(b)
        q == (2 * n + d) \div (2 * d)
    IN  IF (a < 0) = (b < 0) THEN q ELSE -q

RECURSIVE SqrtSearch(_, _, _)
\* The largest r in lo..hi with r * r <= n.
SqrtSearch(n, lo, hi) ==
    IF lo >= hi THEN lo
    ELSE LET mid == (lo + hi + 1) \div 2
         IN  IF mid * mid <= n THEN SqrtSearch(n, mid, hi)
             ELSE SqrtSearch(n, lo, mid - 1)

\* np.sqrt, to the nearest integer (n < 2^30).
Sqrt(n) ==
    LET r == SqrtSearch(n, 0, 32767)
    IN  IF n - r * r > r THEN r + 1 ELSE r

\* math.cos of a whole number of degrees 0..90, times 1000.
CosTab ==
    <<1000, 1000, 999, 999, 998, 996, 995, 993, 990, 988, 985, 982, 978, 974,
      970, 966, 961, 956, 951, 946, 940, 934, 927, 921, 914, 906, 899, 891,
      883, 875, 866, 857, 848, 839, 829, 819, 809, 799, 788, 777, 766, 755,
      743, 731, 719, 707, 695, 682, 669, 656, 643, 629, 616, 602, 588, 574,
      559, 545, 530, 515, 500, 485, 469, 454, 438, 423, 407, 391, 375, 358,
      342, 326, 309, 292, 276, 259, 242, 225, 208, 191, 174, 156, 139, 122,
      105, 87, 70, 52, 35, 17, 0>>

\* arccos of c / 1000 for 0 <= c <= 1000, in tenths of a degree: the table
\* entry below c, interpolated linearly to the next one.
ArcCosPos(c) ==
    LET d == CHOOSE k \in 0..90 :
                 /\ CosTab[k + 1] >= c
                 /\ k < 90 => CosTab[k + 2] < c
    IN  IF c >= 1000 THEN 0
        ELSE IF d = 90 THEN 900
        ELSE 10 * d + RDiv(10 * (CosTab[d + 1] - c),
                           CosTab[d + 1] - CosTab[d + 2])

\* np.arccos(num / den) * (180 / np.pi), in tenths of a degree (den > 0).
ArcCosDeg(num, den) ==
    LET q == IF Abs(num) < 1000000 THEN RDiv(num * 1000, den)
             ELSE RDiv(num, RDiv(den, 1000))
        c == Max(-1000, Min(1000, q))
    IN  IF c >= 0 THEN ArcCosPos(c) ELSE 1800 - ArcCosPos(-c)

\* Python's round() of a float given in tenths: to the nearest integer,
\* a half to the even neighbour.
Round(t) ==
    LET q == t \div 10
        r == t % 10
    IN  IF r < 5 THEN q
        ELSE IF r > 5 THEN q + 1
        ELSE IF q % 2 = 0 THEN q ELSE q + 1

\* Python's int() of a float given in tenths: truncation toward zero.
Trunc(t) == IF t >= 0 THEN t \div 10 ELSE -((-t) \div 10)

\* The number of indices a slice [a:b] selects on an axis of length n.
SliceLen(a, b, n) ==
    LET na == IF a < 0 THEN Max(a + n, 0) ELSE Min(a, n)
        nb == IF b < 0 THEN Max(b + n, 0) ELSE Min(b, n)
    IN  Max(nb - na, 0)

----------------------------------------------------------------------------
(* What the detector sees.  cv2.findContours, cv2.contourArea,             *)
(* cv2.minAreaRect and cv2.boxPoints are external: a contour is given by   *)
(* what they return for it.  area is in square pixels, the rectangle's     *)
(* centre (xm, ym) and its four box points in tenths of a pixel.  Pixels   *)
(* are grouped into cells: raw holds the cells of the contour that the     *)
(* thresholded prediction already sets, cells the ones cv2.drawContours    *)
(* sets when it fills the contour.                                          *)

Pt(px, py) == [x |-> px, y |-> py]

\* An upright w x h rectangle with its top left corner at (px, py), in
\* pixels; boxPoints lists bottom-left, top-left, top-right, bottom-right.
Rect(id, px, py, w, h) ==
    [area  |-> w * h,
     xm    |-> 10 * px + 5 * w,
     ym    |-> 10 * py + 5 * h,
     box   |-> <<Pt(10 * px, 10 * (py + h)), Pt(10 * px, 10 * py),
                 Pt(10 * (px + w), 10 * py), Pt(10 * (px + w), 10 * (py + h))>>,
     raw   |-> {<<id, "edge">>},
     cells |-> {<<id, "edge">>, <<id, "inside">>}]

\* A rotated rectangle of area a (square pixels) given by its four box
\* points, in tenths of a pixel; its centre is the mean of the points.
Box(id, a, tl, tr, bl, br) ==
    [area  |-> a,
     xm    |-> RDiv(tl.x + tr.x + bl.x + br.x, 4),
     ym    |-> RDiv(tl.y + tr.y + bl.y + br.y, 4),
     box   |-> <<bl, tl, tr, br>>,
     raw   |-> {<<id, "edge">>},
     cells |-> {<<id, "edge">>, <<id, "inside">>}]

\* frame.shape: rows and columns of every frame of the video.
FrameShape == [h |-> 720, w |-> 1280]

----------------------------------------------------------------------------
(* __check_contours                                                        *)

\* A variant of the filter that lets a contour of exactly the threshold's
\* area through.
area_filter_inclusive(cnt, filter_area_size) == cnt.area >= filter_area_size

\* A variant of the filter that lets every contour through.
area_filter_off(cnt, filter_area_size) == TRUE

\* line 139: the contour passes the area filter.
area_filter(cnt, filter_area_size) == cnt.area > filter_area_size

\* lines 154-163: one box point of the first surviving contour.
first_point(q, p, xm, ym) ==
    IF p.x < xm
    THEN IF p.y < ym THEN [q EXCEPT !.top_left = <<p>>]
                     ELSE [q EXCEPT !.bot_left = <<p>>]
    ELSE IF p.y < ym THEN [q EXCEPT !.top_right = <<p>>]
                     ELSE [q EXCEPT !.bot_right = <<p>>]

\* lines 173-177: one box point of a contour left of center_left.
left_point(q, p, xm, ym) ==
    IF p.x < xm
    THEN IF p.y < ym THEN [q EXCEPT !.top_left = <<p>>]
                     ELSE [q EXCEPT !.bot_left = <<p>>]
    ELSE q

\* lines 183-187: one box point of a contour right of center_right.
right_point(q, p, xm, ym) ==
    IF p.x > xm
    THEN IF p.y < ym THEN [q EXCEPT !.top_right = <<p>>]
                     ELSE [q EXCEPT !.bot_right = <<p>>]
    ELSE q

RECURSIVE for_point_in_box(_, _, _, _, _)
\* The loops "for point in box" of lines 153, 172 and 182.
for_point_in_box(q, box, xm, ym, side) ==
    IF box = << >> THEN q
    ELSE LET p == Head(box)
             q1 == IF side = "first" THEN first_point(q, p, xm, ym)
                   ELSE IF side = "left" THEN left_point(q, p, xm, ym)
                   ELSE right_point(q, p, xm, ym)
         IN  Bind(q1, LAMBDA v : for_point_in_box(v, Tail(box), xm, ym, side))

\* lines 139-191: the body of "for cnt in contours" for one contour.  q holds
\* the locals first_cnt, top_left .. bot_right, the attributes center_left
\* and center_right, and fsz_mask.
contour_step(q, cnt, filter_area_size) ==
    IF ~area_filter(cnt, filter_area_size) THEN q
    ELSE LET q1 ==
                 IF q.first_cnt
                 THEN [for_point_in_box(q, cnt.box, cnt.xm, cnt.ym, "first")
                          EXCEPT !.first_cnt = FALSE,
                                 !.center_left = <<cnt.xm>>,
                                 !.center_right = <<cnt.xm>>]
                 ELSE IF cnt.xm < q.center_left[1]
                 THEN [for_point_in_box(q, cnt.box, cnt.xm, cnt.ym, "left")
                          EXCEPT !.center_left = <<cnt.xm>>]
                 ELSE IF cnt.xm > q.center_right[1]
                 THEN [for_point_in_box(q, cnt.box, cnt.xm, cnt.ym, "right")
                          EXCEPT !.center_right = <<cnt.xm>>]
                 ELSE q
         IN  [q1 EXCEPT !.fsz_mask = @ \cup cnt.cells]

RECURSIVE for_cnt_in_contours(_, _, _)
\* line 138: the loop over the contours, in the order findContours gives.
for_cnt_in_contours(q, contours, filter_area_size) ==
    IF contours = << >> THEN q
    ELSE Bind(contour_step(q, Head(contours), filter_area_size),
              LAMBDA v : for_cnt_in_contours(v, Tail(contours), filter_area_size))

\* lines 82-83 and 135-136: the thresholded prediction of a scene is the
\* raw cells of its contours.
predicted_mask(contours) == UNION {contours[i].raw : i \in 1..Len(contours)}

\* lines 131-191: the locals and attributes when the loop ends.
check_contours(contours, cl, cr, filter_area_size) ==
    for_cnt_in_contours(
        [first_cnt |-> TRUE, top_left |-> None, bot_left |-> None,
         top_right |-> None, bot_right |-> None,
         center_left |-> cl, center_right |-> cr,
         fsz_mask |-> predicted_mask(contours)],
        contours, filter_area_size)

\* line 195: np.zeros(1), the file of a frame with no detected area.
EmptyMask == [rows |-> 1, cells |-> {}]

\* line 199: the file of a frame with a detected area.
FullMask(cells) == [rows |-> FrameShape.h, cells |-> cells]

\* lines 202-204: the row appended to saved_points (every corner bound).
corner_row(q) ==
    [x_top_left  |-> q.top_left[1].x,  y_top_left  |-> q.top_left[1].y,
     x_top_right |-> q.top_right[1].x, y_top_right |-> q.top_right[1].y,
     x_bot_left  |-> q.bot_left[1].x,  y_bot_left  |-> q.bot_left[1].y,
     x_bot_right |-> q.bot_right[1].x, y_bot_right |-> q.bot_right[1].y]

\* lines 202-204 read a local no branch has bound: UnboundLocalError.
unbound(q) ==
    \/ q.top_left = None
    \/ q.top_right = None
    \/ q.bot_left = None
    \/ q.bot_right = None

\* saved_points.loc[label] = row
SetRow(points, label, row) ==
    [l \in DOMAIN points \cup {label} |->
        IF l = label THEN row ELSE points[l]]

----------------------------------------------------------------------------
(* __smooth_series: scipy.signal.savgol_filter and the window search.      *)
(*                                                                         *)
(* savgol_filter(x, w, p) (mode 'interp') fits, by least squares, a        *)
(* polynomial of degree p to w consecutive values and evaluates it: at the *)
(* window's centre for an inner point, at the point's own place in the     *)
(* first (last) window for the first (last) w \div 2 points.  With the     *)
(* discrete orthogonal (Gram) polynomials P_k on -m..m the weight of the   *)
(* value at offset u for the value at offset t is                          *)
(*      SUM k \in 0..p : P_k(t) * P_k(u) / N_k,   N_k = SUM u : P_k(u)^2.  *)
(* The weights are kept exact, as numerators over the common denominator   *)
(* N_0 * .. * N_p; the model covers p <= 2.                                *)

RECURSIVE SumSeq(_)
SumSeq(s) == IF s = << >> THEN 0 ELSE Head(s) + SumSeq(Tail(s))

\* P_k(u) on -m..m (an integer multiple of the Gram polynomial).
GramP(k, u, m) ==
    IF k = 0 THEN 1
    ELSE IF k = 1 THEN u
    ELSE 3 * u * u - m * (m + 1)

\* N_k: the sum of P_k(u)^2 over u in -m..m.
GramN(k, m) ==
    SumSeq([i \in 1..(2 * m + 1) |->
               GramP(k, i - m - 1, m) * GramP(k, i - m - 1, m)])

\* The common denominator of the weights.
HatDen(m, p) ==
    IF p = 0 THEN GramN(0, m)
    ELSE IF p = 1 THEN GramN(0, m) * GramN(1, m)
    ELSE GramN(0, m) * GramN(1, m) * GramN(2, m)

\* The weight of offset u for offset t, times HatDen(m, p).
HatNum(t, u, m, p) ==
    IF p = 0 THEN 1
    ELSE IF p = 1 THEN GramN(1, m) + t * u * GramN(0, m)
    ELSE GramN(1, m) * GramN(2, m)
         + t * u * GramN(0, m) * GramN(2, m)
         + GramP(2, t, m) * GramP(2, u, m) * GramN(0, m) * GramN(1, m)

\* savgol_filter raises ValueError for a window longer than the series or
\* a polynomial order that is not below the window length.
savgol_raises(n, w, p) == w > n \/ p >= w

\* savgol_filter(s, w, p)[i] - s[i], times HatDen: the weights of a row sum
\* to one, so the filtered value is s[i] plus the weighted differences.
savgol_dev(s, w, p, i) ==
    LET n    == Len(s)
        m    == w \div 2
        base == IF i <= m THEN 0
                ELSE IF i > n - m THEN n - w
                ELSE i - m - 1
        t    == i - base - m - 1
    IN  SumSeq([j \in 1..w |->
                   HatNum(t, j - m - 1, m, p) * (s[base + j] - s[i])])

\* savgol_filter(s, w, p): the deviations from s over the denominator den.
savgol_filter(s, w, p) ==
    [dev |-> [i \in 1..Len(s) |-> savgol_dev(s, w, p, i)],
     den |-> HatDen(w \div 2, p)]

\* A variant of line 578 that accepts a deviation equal to the threshold.
window_passes_inclusive(new, threshold) ==
    \A i \in 1..Len(new.dev) : Abs(new.dev[i]) <= threshold * new.den

\* line 578: max(abs(new_series - series)) < threshold (threshold in tenths).
window_passes(new, threshold) ==
    \A i \in 1..Len(new.dev) : Abs(new.dev[i]) < threshold * new.den

\* The value of a filtered series at i, to the nearest tenth.
SeriesValue(s, new, i) == s[i] + RDiv(new.dev[i], new.den)

RECURSIVE window_search(_, _, _, _, _)
\* lines 574-579: the loop over wnd_size from w up, best the result so far.
window_search(s, w, best, mp, upto) ==
    IF w >= upto THEN best
    ELSE IF w % 2 = 0 THEN window_search(s, w + 1, best, mp, upto)
    ELSE IF savgol_raises(Len(s), w, mp.poly_degree)
    THEN [status |-> "ValueError", window |-> w, dev |-> << >>, den |-> 1]
    ELSE LET new == savgol_filter(s, w, mp.poly_degree)
             b1  == IF window_passes(new, mp.smooth_threshold)
                    THEN [status |-> "series", window |-> w,
                          dev |-> new.dev, den |-> new.den]
                    ELSE best
         IN  Bind(b1, LAMBDA v : window_search(s, w + 1, v, mp, upto))

\* lines 566-581: best_series = [] unless a window passes.
smooth_series(s, mp) ==
    window_search(s, mp.min_window,
                  [status |-> "empty", window |-> 0, dev |-> << >>, den |-> 1],
                  mp, mp.max_window)

\* The returned series as numbers, to the nearest tenth.
SeriesOf(s, best) == [i \in 1..Len(best.dev) |-> SeriesValue(s, best, i)]

----------------------------------------------------------------------------
(* __smooth_points                                                         *)

\* line 449: ratio = 6.6, in tenths.
ratio == 66

\* line 469: the jump of dist_top_left that makes a frame a candidate.
jump_threshold == 50

\* lines 477 and 480: the move of x_top_left / x_top_right that flags it.
min_px_move == 90

\* lines 508 and 522: range(x - 10, x + 10).
half_window == 10

\* line 535: abs(row['ratio'] - ratio) > 0.05, in thousandths.
ratio_tolerance == 50

\* line 536: x_top_right <= 1278.
right_bound == 12780

\* line 545: x_top_left >= 2.
left_bound == 20

\* lines 426-460: the derived columns of one row that the pass reads later
\* (dist_bot_left, dist_top_right, dist_bot_right and bot_width are computed
\* and never read).
features(r) ==
    LET center_x_1 == RDiv(r.x_top_left + r.x_bot_right, 2)
        center_y_1 == RDiv(r.y_top_left + r.y_bot_right, 2)
        center_x_2 == RDiv(r.x_top_right + r.x_bot_left, 2)
        center_y_2 == RDiv(r.y_top_right + r.y_bot_left, 2)
        center_x   == RDiv(center_x_1 + center_x_2, 2)
        center_y   == RDiv(center_y_1 + center_y_2, 2)
        ax == r.x_top_right - r.x_top_left
        ay == r.y_top_right - r.y_top_left
        bx == r.x_bot_left - r.x_top_left
        by == r.y_bot_left - r.y_top_left
        left_height == Sqrt((r.x_top_left - r.x_bot_left) * (r.x_top_left - r.x_bot_left)
                            + (r.y_top_left - r.y_bot_left) * (r.y_top_left - r.y_bot_left))
        top_width   == Abs(r.x_top_left - r.x_top_right)
    IN  [dist_top_left |-> Sqrt((center_x - r.x_top_left) * (center_x - r.x_top_left)
                                + (center_y - r.y_top_left) * (center_y - r.y_top_left)),
         left_height   |-> left_height,
         top_width     |-> top_width,
         right_height  |-> Sqrt((r.x_top_right - r.x_bot_right) * (r.x_top_right - r.x_bot_right)
                                + (r.y_top_right - r.y_bot_right) * (r.y_top_right - r.y_bot_right)),
         \* top_width / left_height, in thousandths
         ratio         |-> RDiv(top_width * 1000, left_height),
         angle         |-> ArcCosDeg(ax * bx + ay * by,
                                     Sqrt(ax * ax + ay * ay) * Sqrt(bx * bx + by * by))]

\* lines 464-471: the frames whose dist_top_left jumped (labels 0..n-1 exist).
lost_side(f, n) ==
    {i \in 1..(n - 1) :
        Abs(f[i].dist_top_left - f[i - 1].dist_top_left) > jump_threshold}

\* lines 476-478
unstable_left(points, f, n) ==
    {i \in lost_side(f, n) :
        Abs(points[i].x_top_left - points[i - 1].x_top_left) > min_px_move}

\* lines 476, 480-481
unstable_right(points, f, n) ==
    {i \in lost_side(f, n) :
        Abs(points[i].x_top_right - points[i - 1].x_top_right) > min_px_move}

\* line 491: y = lambda x: ...
y_on_top_edge(px, r) ==
    RDiv((px - r.x_top_left) * (r.y_top_right - r.y_top_left),
         r.x_top_right - r.x_top_left) + r.y_top_left

\* lines 493-494, for one row.
rectify(r, f) ==
    [r EXCEPT !.y_top_right = y_on_top_edge(r.x_top_right, r),
              !.y_bot_right = y_on_top_edge(r.x_bot_right, r) + f.left_height]

\* height * (ratio * angle / 90): lines 512-515, 526-530, 537-540, 546-549.
side_offset(height, angle) == RDiv(height * ratio * angle, 9000)

RECURSIVE right_window(_, _, _, _)
\* lines 508-518, from position pos on.  st: points, the locals, raised.
right_window(st, f, pos, last) ==
    IF pos > last THEN st
    ELSE IF pos \notin DOMAIN st.points THEN [st EXCEPT !.raised = "KeyError"]
    ELSE LET xtl == st.points[pos].x_top_left
             xbl == st.points[pos].x_bot_left
             off == side_offset(f[pos].left_height, f[pos].angle)
         IN  Bind([st EXCEPT !.x_top_left = xtl, !.x_bot_left = xbl,
                             !.points[pos].x_top_right = xtl + off,
                             !.points[pos].x_bot_right = xbl + off],
                  LAMBDA v : right_window(v, f, pos + 1, last))

RECURSIVE left_window(_, _, _, _)
\* lines 522-533, from position pos on.
left_window(st, f, pos, last) ==
    IF pos > last THEN st
    ELSE IF pos \notin DOMAIN st.points THEN [st EXCEPT !.raised = "KeyError"]
    ELSE LET xtr == st.points[pos].x_top_right
             xbr == st.points[pos].x_bot_right
             off == side_offset(f[pos].right_height, f[pos].angle)
         IN  Bind([st EXCEPT !.x_top_right = xtr, !.x_bot_right = xbr,
                             !.points[pos].x_top_left = xtr - off,
                             !.points[pos].x_bot_left = xbr - off],
                  LAMBDA v : left_window(v, f, pos + 1, last))

\* line 535
ratio_drifted(fx) == Abs(fx.ratio - 100 * ratio) > ratio_tolerance

\* lines 535-552 for frame x, with the locals as the windows left them.
ratio_correction(st, f, x) ==
    IF ~ratio_drifted(f[x]) THEN st
    ELSE IF st.latest_unstable = "left" /\ st.x_top_right <= right_bound
    THEN LET off == side_offset(f[x].right_height, f[x].angle)
         IN  [st EXCEPT !.points[x].x_top_left = st.x_top_right - off,
                        !.points[x].x_bot_left = st.x_bot_right - off]
    ELSE IF st.latest_unstable = "right" /\ st.x_top_left >= left_bound
    THEN LET off == side_offset(f[x].left_height, f[x].angle)
         IN  [st EXCEPT !.points[x].x_top_right = st.x_top_left + off,
                        !.points[x].x_bot_right = st.x_bot_left + off]
    ELSE st

\* lines 498-552: the body of the main loop for frame x.
\* lines 498-504: the row of frame x read into the locals.
read_row(st, x) ==
    LET row == st.points[x]
    IN  [st EXCEPT !.x_top_left = row.x_top_left,
                   !.x_bot_left = row.x_bot_left,
                   !.x_top_right = row.x_top_right,
                   !.x_bot_right = row.x_bot_right]

\* lines 506-518
if_unstable_right(st, f, ur, x) ==
    IF x \in ur
    THEN right_window([st EXCEPT !.latest_unstable = "right"],
                      f, x - half_window, x + half_window - 1)
    ELSE st

\* lines 520-533
if_unstable_left(st, f, ul, x) ==
    IF st.raised # "none" THEN st
    ELSE IF x \in ul
    THEN left_window([st EXCEPT !.latest_unstable = "left"],
                     f, x - half_window, x + half_window - 1)
    ELSE st

\* lines 498-552: the body of the main loop for frame x.
correct_frame(st, f, ul, ur, x) ==
    Bind(if_unstable_right(read_row(st, x), f, ur, x), LAMBDA s1 :
    Bind(if_unstable_left(s1, f, ul, x), LAMBDA s2 :
         IF s2.raised # "none" THEN s2 ELSE ratio_correction(s2, f, x)))

RECURSIVE main_loop(_, _, _, _, _, _)
\* line 497: for x in range(self.saved_points.shape[0]).
main_loop(st, f, ul, ur, x, n) ==
    IF x >= n \/ st.raised # "none" THEN st
    ELSE Bind(correct_frame(st, f, ul, ur, x),
              LAMBDA v : main_loop(v, f, ul, ur, x + 1, n))

\* One y column as a series, in label order (labels 0..n-1).
Column(points, col, n) == [i \in 1..n |-> points[i - 1][col]]

RECURSIVE smooth_columns(_, _, _, _)
\* lines 554-557: the four columns in turn; assigning the empty best_series
\* of a failed search to a column raises ValueError, as a raising filter does.
smooth_columns(points, cols, n, mp) ==
    IF cols = << >> THEN [points |-> points, raised |-> "none"]
    ELSE Bind(Column(points, Head(cols), n), LAMBDA s :
         Bind(smooth_series(s, mp), LAMBDA best :
             IF best.status # "series"
             THEN [points |-> points, raised |-> "ValueError"]
             ELSE Bind([l \in DOMAIN points |->
                          [points[l] EXCEPT ![Head(cols)] = SeriesValue(s, best, l + 1)]],
                       LAMBDA v : smooth_columns(v, Tail(cols), n, mp))))

\* lines 426-557: the pass.  The result: the store as the pass leaves it
\* (also when it raises), the exception, and the two flag columns.
smooth_points(points, mp) ==
    LET n == Cardinality(DOMAIN points)
    IN  IF \E i \in 0..(n - 1) : i \notin DOMAIN points
        THEN \* lines 465, 467: saved_points.loc[i] of a label that is missing
             [points |-> points, raised |-> "KeyError",
              unstable_left |-> {}, unstable_right |-> {}]
        ELSE Bind([l \in 0..(n - 1) |-> features(points[l])], LAMBDA f :
             Bind(unstable_left(points, f, n), LAMBDA ul :
             Bind(unstable_right(points, f, n), LAMBDA ur :
             Bind(main_loop([points |-> [l \in 0..(n - 1) |-> rectify(points[l], f[l])],
                             raised |-> "none", latest_unstable |-> "none",
                             x_top_left |-> 0, x_bot_left |-> 0,
                             x_top_right |-> 0, x_bot_right |-> 0],
                            f, ul, ur, 0, n), LAMBDA st :
                 IF st.raised # "none"
                 THEN [points |-> st.points, raised |-> st.raised,
                       unstable_left |-> ul, unstable_right |-> ur]
                 ELSE Bind(smooth_columns(st.points,
                                          <<"y_top_left", "y_top_right",
                                            "y_bot_left", "y_bot_right">>, n, mp),
                           LAMBDA sm :
                               [points |-> sm.points, raised |-> sm.raised,
                                unstable_left |-> ul, unstable_right |-> ur])))))

----------------------------------------------------------------------------
(* insert_logo, __logo_color_adj, __adjust_logo_shape                      *)
(* self.corners = [top_left, bot_right, top_right, bot_left] (line 415):   *)
(* corners[0..3] of the source are c[1..4] here.                           *)

\* lines 327-328 and 335: the crop of the banner is empty, and cv2.cvtColor
\* raises cv2.error on it.
logo_color_adj_raises(c) ==
    \/ SliceLen(Trunc(c[1].y), Trunc(c[2].y), FrameShape.h) = 0
    \/ SliceLen(Trunc(c[1].x), Trunc(c[2].x), FrameShape.w) = 0

\* A variant of the test of line 288 that misses a corner lying exactly on
\* the last column.
right_side_strict(c) ==
    \/ Round(c[2].x) > FrameShape.w - 1
    \/ Round(c[3].x) > FrameShape.w - 1

\* line 288: the quad is cut by the right edge of the frame.
right_side(c) ==
    \/ Round(c[2].x) >= FrameShape.w - 1
    \/ Round(c[3].x) >= FrameShape.w - 1

\* line 302: the quad is cut by the left edge of the frame.
left_side(c) ==
    \/ Round(c[1].x) <= 0
    \/ Round(c[4].x) <= 0

\* A variant of line 312 that measures the width along the top edge.
real_width_top(c) == Abs(c[3].x - c[1].x)

\* line 312: the real width of the banner.
real_width(c) == Abs(c[2].x - c[1].x)

\* lines 294-296: abs(corners[2][1] - corners[0][1]) * y_coef added to y0;
\* numpy divides by zero without raising.
cropped_y(y0, c, ow) ==
    IF Abs(c[2].x - c[1].x) = 0
    THEN IF ow = 0 \/ Abs(c[3].y - c[1].y) = 0 THEN "nan" ELSE "inf"
    ELSE y0 + RDiv(Abs(c[3].y - c[1].y) * ow, Abs(c[2].x - c[1].x))

\* lines 283-312: pts2 and self.old_width when the method ends, or the
\* TypeError of an arithmetic on old_width = None.
adjust_logo_shape(c, ow) ==
    IF right_side(c)
    THEN IF ow = None
         THEN [raised |-> "TypeError", pts2 |-> None, old_width |-> ow]
         ELSE LET transform_x == c[1].x + ow[1]
              IN  [raised |-> "none",
                   pts2 |-> <<c[1], c[4],
                              Pt(transform_x, cropped_y(c[4].y, c, ow[1])),
                              Pt(transform_x, cropped_y(c[1].y, c, ow[1]))>>,
                   old_width |-> ow]
    ELSE IF left_side(c)
    THEN IF ow = None
         THEN [raised |-> "TypeError", pts2 |-> None, old_width |-> ow]
         ELSE LET transform_x == c[3].x - ow[1]
              IN  [raised |-> "none",
                   pts2 |-> <<Pt(transform_x, c[1].y), Pt(transform_x, c[4].y),
                              c[2], c[3]>>,
                   old_width |-> ow]
    ELSE [raised |-> "none", pts2 |-> <<c[1], c[4], c[2], c[3]>>,
          old_width |-> <<real_width(c)>>]

\* line 107: the gate of insert_logo.
skip_insertion == ~detection_successful

\* lines 103-123
insert_logo ==
    /\ raised = "none"
    /\ called = "detect_banner"
    /\ called' = "insert_logo"
    /\ UNCHANGED <<model_parameters, video, detected_mask, detection_successful,
                   corners, center_left, center_right, frame_num,
                   before_smoothing, load_smooth, saved_points, saved_frame_mask,
                   smooth_runs, points_before, unstable, series, smoothed>>
    /\ IF skip_insertion
       THEN UNCHANGED <<raised, frame, old_width, pts2>>
       ELSE IF logo_color_adj_raises(corners)
       THEN /\ raised' = "cv2.error"
            /\ UNCHANGED <<frame, old_width, pts2>>
       ELSE LET a == adjust_logo_shape(corners, old_width)
            IN  /\ raised' = a.raised
                /\ old_width' = a.old_width
                /\ pts2' = IF a.raised = "none" THEN a.pts2 ELSE pts2
                /\ frame' = IF a.raised = "none"
                            THEN <<[frame[1] EXCEPT
                                      !.painted = detected_mask[1].cells]>>
                            ELSE frame

----------------------------------------------------------------------------
(* detect_banner, __load_points                                            *)

\* lines 409-415: self.corners from the row of the current frame.
corners_of(r) ==
    <<Pt(r.x_top_left, r.y_top_left), Pt(r.x_bot_right, r.y_bot_right),
      Pt(r.x_top_right, r.y_top_right), Pt(r.x_bot_left, r.y_bot_left)>>

\* A variant of line 94 that keeps the flag of the frame before.
empty_mask_flag_kept == detection_successful

\* line 94: the flag after loading the mask of a frame with no detected area.
empty_mask_flag == FALSE

\* line 93: len(self.detected_mask) == 1.
mask_is_empty(mask) == mask.rows = 1

\* A variant of line 404 that forgets the one-shot flag.
runs_smoothing_every_frame == model_parameters.source_type = 0

\* line 404: the stabilisation runs on this call.
runs_smoothing == load_smooth /\ model_parameters.source_type = 0

\* lines 75-86 and 101: a frame of the detection pass.
detect_pass ==
    /\ before_smoothing
    /\ \E q \in {check_contours(video[frame_num + 1], center_left, center_right,
                                model_parameters.filter_area_size)} :
        /\ frame' = <<[num |-> frame_num, painted |-> {}]>>
        /\ center_left' = q.center_left
        /\ center_right' = q.center_right
        /\ saved_frame_mask' =
               SetRow(saved_frame_mask, frame_num,
                      IF q.first_cnt THEN EmptyMask ELSE FullMask(q.fsz_mask))
        /\ saved_points' = IF q.first_cnt \/ unbound(q) THEN saved_points
                           ELSE SetRow(saved_points, frame_num, corner_row(q))
        /\ raised' = IF ~q.first_cnt /\ unbound(q) THEN "UnboundLocalError"
                     ELSE "none"
        /\ frame_num' = IF ~q.first_cnt /\ unbound(q) THEN frame_num
                        ELSE frame_num + 1
        /\ UNCHANGED <<detected_mask, detection_successful, corners, load_smooth,
                       smooth_runs, points_before, unstable>>

\* lines 88-101 with __load_points (399-415): a frame of the replay pass.
replay_pass ==
    /\ ~before_smoothing
    /\ \E mask \in {saved_frame_mask[frame_num]} :
       \E sm \in {IF ~mask_is_empty(mask) /\ runs_smoothing
                  THEN smooth_points(saved_points, model_parameters)
                  ELSE [points |-> saved_points, raised |-> "none",
                        unstable_left |-> unstable.left,
                        unstable_right |-> unstable.right]} :
       \E err \in {IF sm.raised # "none" THEN sm.raised
                   ELSE IF frame_num \notin DOMAIN sm.points THEN "KeyError"
                   ELSE "none"} :
          /\ frame' = <<[num |-> frame_num, painted |-> {}]>>
          /\ detected_mask' = <<mask>>
          /\ UNCHANGED <<center_left, center_right, saved_frame_mask>>
          /\ IF mask_is_empty(mask)
             THEN /\ detection_successful' = empty_mask_flag
                  /\ frame_num' = frame_num + 1
                  /\ raised' = "none"
                  /\ UNCHANGED <<corners, load_smooth, saved_points, smooth_runs,
                                 points_before, unstable>>
             ELSE /\ saved_points' = sm.points
                  /\ smooth_runs' = IF runs_smoothing THEN smooth_runs + 1
                                    ELSE smooth_runs
                  /\ points_before' = IF runs_smoothing THEN saved_points
                                      ELSE points_before
                  /\ unstable' = [left |-> sm.unstable_left,
                                  right |-> sm.unstable_right]
                  /\ load_smooth' = IF runs_smoothing /\ sm.raised = "none"
                                    THEN FALSE ELSE load_smooth
                  /\ raised' = err
                  /\ corners' = IF err = "none"
                                THEN corners_of(sm.points[frame_num])
                                ELSE corners
                  /\ detection_successful' = IF err = "none" THEN TRUE
                                             ELSE detection_successful
                  /\ frame_num' = IF err = "none" THEN frame_num + 1
                                  ELSE frame_num

\* lines 69-101: the caller hands the next frame of the video.
detect_banner ==
    /\ raised = "none"
    /\ called \in {"init", "begin_replay", "insert_logo"}
    /\ frame_num < Len(video)
    /\ called' = "detect_banner"
    /\ UNCHANGED <<model_parameters, video, before_smoothing, old_width, pts2,
                   series, smoothed>>
    /\ \/ detect_pass
       \/ replay_pass

\* The caller, between the passes: once every frame has been through the
\* detection pass it clears before_smoothing and rewinds frame_num.
begin_replay ==
    /\ raised = "none"
    /\ called = "insert_logo"
    /\ before_smoothing
    /\ frame_num = Len(video)
    /\ called' = "begin_replay"
    /\ before_smoothing' = FALSE
    /\ frame_num' = 0
    /\ UNCHANGED <<model_parameters, video, raised, frame, detected_mask,
                   detection_successful, corners, old_width, center_left,
                   center_right, load_smooth, saved_points, saved_frame_mask,
                   pts2, smooth_runs, points_before, unstable, series, smoothed>>

----------------------------------------------------------------------------
(* The inputs: configurations and videos.                                  *)

\* The longest clip of arbitrary scenes.
MaxShort == 2

\* The length of the long clips (a correction window needs 20 frames).
MaxFrames == 20

\* model_parameters as the YAML file gives them; smooth_threshold in tenths
\* of a pixel, source_type 0 for a video.
Config(st, minw, maxw, deg, thr) ==
    [source_type |-> st, min_window |-> minw, max_window |-> maxw,
     poly_degree |-> deg, smooth_threshold |-> thr, filter_area_size |-> 100]

Configs ==
    {Config(0, 3, 6, 1, 20),     \* a video, windows 3 and 5, straight lines
     Config(1, 3, 6, 1, 20),     \* a single image: no stabilisation
     Config(0, 3, 8, 2, 5),      \* windows 3, 5 and 7, parabolas
     Config(0, 5, 8, 2, 5),      \* windows 5 and 7, parabolas, a tight bound
     Config(0, 1, 2, 0, 20)}     \* window 1: the filter is the identity

\* The banner: 198 x 30 pixels, top_width / left_height = 6.6.
SceneBanner == <<Rect("a", 400, 100, 198, 30)>>

\* The same banner one pixel lower (jitter).
SceneJitter == <<Rect("a", 400, 101, 198, 30)>>

\* The banner with its left edge detected 20 pixels too far left.
SceneLeftJump == <<Rect("b", 380, 100, 218, 30)>>

\* The banner with its right edge detected 20 pixels too far right.
SceneRightJump == <<Rect("c", 400, 100, 218, 30)>>

\* Another banner, further left and of another shape.
SceneOther == <<Rect("d", 300, 98, 150, 34)>>

\* The banner turned by about three degrees: top_right.x # bot_right.x.
SceneTilted ==
    <<Box("t", 5940, Pt(4000, 1000), Pt(5978, 1099), Pt(3985, 1300),
          Pt(5963, 1399))>>

\* A banner in two pieces, the right piece four pixels taller.
ScenePieces == <<Rect("p", 400, 100, 40, 30), Rect("q", 560, 100, 38, 34)>>

\* A banner cut by the right edge of the frame: top_right.x = 1279.
SceneRightEdge == <<Rect("r", 1100, 100, 179, 30)>>

\* A banner cut by the left edge of the frame: top_left.x = 0.
SceneLeftEdge == <<Rect("l", 0, 100, 150, 30)>>

\* Contours of area 500 and 50 (spec.md, section 8), the small one first.
SceneBigSmall == <<Rect("s", 300, 200, 10, 5), Rect("a", 400, 100, 50, 10)>>

\* A contour whose area equals filter_area_size, then one of area 500.
SceneEqual == <<Rect("a", 400, 100, 50, 10), Rect("e", 300, 200, 20, 5)>>

\* Only a contour whose area equals filter_area_size.
SceneSmall == <<Rect("e", 300, 200, 20, 5)>>

\* No contour at all.
SceneNone == << >>

Scenes ==
    <<SceneBanner, SceneOther, SceneLeftJump, ScenePieces, SceneTilted,
      SceneRightEdge, SceneLeftEdge, SceneBigSmall, SceneEqual, SceneSmall>>

ShortVideos ==
    UNION {{[i \in 1..n |-> Scenes[pick[i]]] : pick \in [1..n -> 1..Len(Scenes)]} :
           n \in 1..MaxShort}

\* A long clip: the banner, jittering every fourth frame when jitter is
\* set, replaced by scene other from frame jump on, and with no contour in
\* frame gap (gap = -1: in no frame).
LongVideo(other, jump, jitter, gap) ==
    [i \in 1..MaxFrames |->
        IF i - 1 = gap THEN SceneNone
        ELSE IF i - 1 >= jump THEN other
        ELSE IF jitter /\ i % 4 = 0 THEN SceneJitter
        ELSE SceneBanner]

LongVideos ==
    {LongVideo(o, j, jit, g) :
        o \in {SceneLeftJump, SceneRightJump, SceneOther, ScenePieces},
        j \in {1, 10, MaxFrames},
        jit \in BOOLEAN,
        g \in {-1, 1, MaxFrames - 1}}

\* A long clip of a banner that moves: the banner for ten frames, then its
\* left edge detected 20 pixels too far left while the whole banner moves
\* right by step pixels a frame.
PanVideo(step) ==
    [i \in 1..MaxFrames |->
        IF i - 1 < 10 THEN SceneBanner
        ELSE <<Rect("b", 380 + step * (i - 11), 100, 218, 30)>>]

PanVideos == {PanVideo(step) : step \in {0, 1}}

\* The left piece of a banner, 40 x 10 pixels, turned by 30 degrees; both
\* of its left box points lie above its centre (4200, 1150).
TiltedPiece ==
    Box("u", 400, Pt(4052, 1007), Pt(4398, 1207), Pt(4002, 1093),
        Pt(4348, 1293))

\* A banner in two pieces, the upright right piece found first.
SceneTiltedLeft == <<Rect("q", 560, 100, 38, 34), TiltedPiece>>

\* The same two pieces, the turned left piece found first.
SceneTiltedFirst == <<TiltedPiece, Rect("q", 560, 100, 38, 34)>>

\* The pieces of ScenePieces, the right piece found first.
ScenePiecesBack == <<Rect("q", 560, 100, 38, 34), Rect("p", 400, 100, 40, 30)>>

\* One-frame clips of banners in pieces.
PieceVideos ==
    {<<SceneTiltedLeft>>, <<SceneTiltedFirst>>, <<ScenePiecesBack>>}

Videos == ShortVideos \cup LongVideos \cup PanVideos \cup PieceVideos

----------------------------------------------------------------------------
(* The program.                                                            *)

NoRows == [l \in {} |-> 0]

\* lines 17-32: __init__, with a configuration and a video to process.
Init ==
    /\ model_parameters \in Configs
    /\ video \in Videos
    /\ called = "init"
    /\ raised = "none"
    /\ frame = None
    /\ detected_mask = None
    /\ detection_successful = FALSE
    /\ corners = None
    /\ old_width = None
    /\ center_left = None
    /\ center_right = None
    /\ frame_num = 0
    /\ before_smoothing = TRUE
    /\ load_smooth = TRUE
    /\ saved_points = NoRows
    /\ saved_frame_mask = NoRows
    /\ pts2 = None
    /\ smooth_runs = 0
    /\ points_before = NoRows
    /\ unstable = [left |-> {}, right |-> {}]
    /\ series = << >>
    /\ smoothed = [status |-> "none", window |-> 0, dev |-> << >>, den |-> 1]

Next ==
    \/ detect_banner
    \/ insert_logo
    \/ begin_replay

Spec == Init /\ [][Next]_vars

----------------------------------------------------------------------------
(* __smooth_series on its own: a series and window parameters are chosen,  *)
(* and the method is called once.                                          *)

\* The longest series.
MaxSeries == 5

\* y-coordinates: 100, 101 and 103 pixels.
SeriesValues == {1000, 1010, 1030}

SeriesInputs == UNION {[1..n -> SeriesValues] : n \in 1..MaxSeries}

\* min_window, max_window, poly_degree and smooth_threshold.
SmoothConfigs ==
    {Config(0, 3, 4, 1, 20),     \* window 3
     Config(0, 3, 6, 1, 20),     \* windows 3 and 5
     Config(0, 3, 6, 1, 8),      \* windows 3 and 5, a tighter bound
     Config(0, 3, 6, 2, 5),      \* windows 3 and 5, parabolas
     Config(0, 1, 2, 0, 20),     \* window 1, order 0: the identity
     Config(0, 1, 4, 1, 20),     \* window 1 is not above the order
     Config(0, 4, 5, 1, 20),     \* no odd window
     Config(0, 3, 3, 1, 20)}     \* no window

InitSmooth ==
    /\ model_parameters \in SmoothConfigs
    /\ series \in SeriesInputs
    /\ smoothed = [status |-> "none", window |-> 0, dev |-> << >>, den |-> 1]
    /\ video = << >>
    /\ called = "init"
    /\ raised = "none"
    /\ frame = None
    /\ detected_mask = None
    /\ detection_successful = FALSE
    /\ corners = None
    /\ old_width = None
    /\ center_left = None
    /\ center_right = None
    /\ frame_num = 0
    /\ before_smoothing = TRUE
    /\ load_smooth = TRUE
    /\ saved_points = NoRows
    /\ saved_frame_mask = NoRows
    /\ pts2 = None
    /\ smooth_runs = 0
    /\ points_before = NoRows
    /\ unstable = [left |-> {}, right |-> {}]

\* lines 559-581: one call of __smooth_series.
call_smooth_series ==
    /\ called = "init"
    /\ called' = "__smooth_series"
    /\ smoothed' = smooth_series(series, model_parameters)
    /\ UNCHANGED <<model_parameters, video, raised, frame, detected_mask,
                   detection_successful, corners, old_width, center_left,
                   center_right, frame_num, before_smoothing, load_smooth,
                   saved_points, saved_frame_mask, pts2, smooth_runs,
                   points_before, unstable, series>>

NextSmooth == call_smooth_series

SpecSmooth == InitSmooth /\ [][NextSmooth]_vars

----------------------------------------------------------------------------
(* __smooth_points on its own: a store as the detection pass leaves it is  *)
(* chosen, and the stabilisation is run on it again and again.             *)

\* How many times the stabilisation is run on a store.
MaxRuns == 2

RECURSIVE detected_points(_, _, _)
\* lines 193-204 over a whole video: the store after the detection pass
\* (frames label 0 .. Len(v) - 1, k the next one).
detected_points(points, v, k) ==
    IF k >= Len(v) THEN points
    ELSE Bind(check_contours(v[k + 1], None, None, 100), LAMBDA q :
         Bind(IF q.first_cnt \/ unbound(q) THEN points
              ELSE SetRow(points, k, corner_row(q)), LAMBDA next :
              detected_points(next, v, k + 1)))

Stores == {detected_points(NoRows, v, 0) : v \in Videos} \ {NoRows}

InitStab ==
    /\ model_parameters \in {c \in Configs : c.source_type = 0}
    /\ saved_points \in Stores
    /\ video = << >>
    /\ called = "init"
    /\ raised = "none"
    /\ frame = None
    /\ detected_mask = None
    /\ detection_successful = FALSE
    /\ corners = None
    /\ old_width = None
    /\ center_left = None
    /\ center_right = None
    /\ frame_num = 0
    /\ before_smoothing = FALSE
    /\ load_smooth = TRUE
    /\ saved_frame_mask = NoRows
    /\ pts2 = None
    /\ smooth_runs = 0
    /\ points_before = NoRows
    /\ unstable = [left |-> {}, right |-> {}]
    /\ series = << >>
    /\ smoothed = [status |-> "none", window |-> 0, dev |-> << >>, den |-> 1]

\* lines 417-557: one run of __smooth_points.
call_smooth_points ==
    /\ raised = "none"
    /\ smooth_runs < MaxRuns
    /\ called' = "__smooth_points"
    /\ \E sm \in {smooth_points(saved_points, model_parameters)} :
          /\ saved_points' = sm.points
          /\ raised' = sm.raised
          /\ unstable' = [left |-> sm.unstable_left,
                          right |-> sm.unstable_right]
    /\ points_before' = saved_points
    /\ smooth_runs' = smooth_runs + 1
    /\ UNCHANGED <<model_parameters, video, frame, detected_mask,
                   detection_successful, corners, old_width, center_left,
                   center_right, frame_num, before_smoothing, load_smooth,
                   saved_frame_mask, pts2, series, smoothed>>

NextStab == call_smooth_points

SpecStab == InitStab /\ [][NextStab]_vars

----------------------------------------------------------------------------
(* Properties of the pipeline.                                             *)

\* The step is a call of insert_logo.
InsertStep == called = "detect_banner" /\ called' = "insert_logo"

\* The step is a call of insert_logo that gets to __adjust_logo_shape.
AdjustStep ==
    InsertStep /\ detection_successful /\ ~logo_color_adj_raises(corners)

\* The step is a call of detect_banner.
DetectStep == called # "detect_banner" /\ called' = "detect_banner"

\* The mask saved for the current frame is the Empty marker.
CurrentMaskEmpty == saved_frame_mask[frame[1].num] = [rows |-> 1, cells |-> {}]

\* C1: whenever detection_successful is false when insert_logo is called,
\* the call leaves the frame and old_width as they were and raises nothing;
\* and the flag is false on every frame of the detection pass and on every
\* frame of the replay pass whose saved mask is the Empty marker.
C1_GateLeavesFrame ==
    [][InsertStep =>
          /\ (before_smoothing \/ CurrentMaskEmpty) => ~detection_successful
          /\ ~detection_successful =>
                 frame' = frame /\ old_width' = old_width /\ raised' = "none"]_vars

\* C1, its case: in the replay pass insert_logo has returned on a frame
\* with the Empty marker, after an earlier frame set old_width.
C1_Witness ==
    /\ called = "insert_logo"
    /\ ~before_smoothing
    /\ ~detection_successful
    /\ detected_mask = <<[rows |-> 1, cells |-> {}]>>
    /\ frame[1].painted = {}
    /\ old_width # None

\* The labels of a store are not 0 .. n-1: some frame before the last
\* recorded one has no record.
HasGaps(points) == DOMAIN points # 0..(Cardinality(DOMAIN points) - 1)

\* C2: (as claimed) frames with no surviving contour are only skipped: when
\* the stabilisation runs on a store whose labels have gaps it completes,
\* no KeyError comes of the gaps, and the replay goes on.
C2_GapsAreSkipped ==
    (smooth_runs > 0 /\ HasGaps(points_before)) =>
        (raised # "KeyError" /\ ~load_smooth)

\* C3: (as claimed) the stabilisation is all or nothing: when a run fails,
\* the store holds the coordinates it held when the run started.
C3_AllOrNothing ==
    (smooth_runs > 0 /\ load_smooth /\ raised # "none") =>
        saved_points = points_before

\* The frames of a gapless store that the left rule flags: dist_top_left
\* jumps by more than 5 pixels and x_top_left moves by more than 9.
LeftJumps(points) ==
    {i \in DOMAIN points :
        /\ i >= 1
        /\ Abs(features(points[i]).dist_top_left
               - features(points[i - 1]).dist_top_left) > 50
        /\ Abs(points[i].x_top_left - points[i - 1].x_top_left) > 90}

\* C5: (as claimed) for every sequence, two frames long or longer, the
\* stabilisation flags every frame whose left side jumps and completes,
\* with the window of each such frame clipped to the frames that exist.
C5_UnstableLeftCompletes ==
    (smooth_runs > 0 /\ ~HasGaps(points_before)) =>
        \A i \in LeftJumps(points_before) :
            /\ i \in unstable.left
            /\ raised \notin {"KeyError"}
            /\ ~load_smooth

\* The quad is cut by the right edge: top_right.x or bot_right.x, rounded,
\* is at least frame_width - 1.
RightTruncated(c) ==
    Round(c[3].x) >= FrameShape.w - 1 \/ Round(c[2].x) >= FrameShape.w - 1

\* The quad is cut by the left edge: top_left.x or bot_left.x, rounded, is
\* at most 0.
LeftTruncated(c) == Round(c[1].x) <= 0 \/ Round(c[4].x) <= 0

\* The quad is fully in the frame.
FullyInFrame(c) == ~RightTruncated(c) /\ ~LeftTruncated(c)

NoSurvivor(scene) ==
    \A i \in 1..Len(scene) : scene[i].area <= model_parameters.filter_area_size

\* C8: when no contour of the frame has an area strictly above the
\* threshold, the detection saves the Empty marker as the frame's mask,
\* leaves every other mask and the whole store as they were, and advances
\* the frame counter by one.
C8_EmptyDetection ==
    [][(DetectStep /\ before_smoothing /\ NoSurvivor(video[frame_num + 1])) =>
          /\ DOMAIN saved_frame_mask' = DOMAIN saved_frame_mask \cup {frame_num}
          /\ saved_frame_mask'[frame_num] = [rows |-> 1, cells |-> {}]
          /\ \A k \in DOMAIN saved_frame_mask \ {frame_num} :
                 saved_frame_mask'[k] = saved_frame_mask[k]
          /\ saved_points' = saved_points
          /\ frame_num' = frame_num + 1
          /\ raised' = "none"]_vars

\* C8, its case: the second frame held only a contour of the threshold's
\* area; the record of the first frame is still the only one.
C8_Witness ==
    /\ before_smoothing
    /\ called = "detect_banner"
    /\ frame_num = 2
    /\ video[2] # << >>
    /\ NoSurvivor(video[2])
    /\ saved_frame_mask[1] = [rows |-> 1, cells |-> {}]
    /\ DOMAIN saved_points = {0}

\* The contours of a scene with an area strictly above the threshold.
Survivors(scene) ==
    SelectSeq(scene, LAMBDA c : c.area > model_parameters.filter_area_size)

\* The cells that filling the contours of a sequence sets.
Filled(contours) == UNION {contours[i].cells : i \in 1..Len(contours)}

\* C9: what the detection pass saves for a frame is built from the contours
\* with an area strictly above the threshold and from them only: the frame
\* has a mask other than the Empty marker exactly when one survives; the
\* mask is then the prediction with the survivors filled, and the record
\* and center_left / center_right are those the survivors alone give.
C9_AreaFilter ==
    before_smoothing =>
        \A k \in DOMAIN saved_frame_mask :
            LET kept == Survivors(video[k + 1])
                q == check_contours(kept, None, None,
                                    model_parameters.filter_area_size)
            IN  /\ (kept = << >>) <=> (saved_frame_mask[k].rows = 1)
                /\ kept = << >> => k \notin DOMAIN saved_points
                /\ kept # << >> =>
                       /\ saved_frame_mask[k].cells =
                              predicted_mask(video[k + 1]) \cup Filled(kept)
                       /\ k \in DOMAIN saved_points =>
                              saved_points[k] = corner_row(q)
                       /\ (k = frame_num - 1 /\ called = "detect_banner") =>
                              /\ center_left = q.center_left
                              /\ center_right = q.center_right

\* C9, its case: contours of area 50 and 500 with threshold 100; the
\* record is the box of the contour of area 500, whose fill is in the mask
\* while the small contour's is not.
C9_Witness ==
    /\ before_smoothing
    /\ called = "detect_banner"
    /\ frame_num = 1
    /\ Len(video[1]) = 2
    /\ video[1][1].area = 50
    /\ video[1][2].area = 500
    /\ model_parameters.filter_area_size = 100
    /\ saved_points[0] = corner_row(check_contours(<<video[1][2]>>, None, None, 100))
    /\ saved_points[0].x_top_left = 4000
    /\ saved_points[0].x_bot_right = 4500
    /\ center_left = <<4250>>
    /\ <<"a", "inside">> \in saved_frame_mask[0].cells
    /\ <<"s", "inside">> \notin saved_frame_mask[0].cells

\* C10: (amended) whenever the compositor processes a quad fully in the
\* frame, old_width afterwards is |bot_right.x - top_left.x| of that quad.
C10_StickyWidthBottomRight ==
    [][(AdjustStep /\ FullyInFrame(corners)) =>
          old_width' = <<Abs(corners[2].x - corners[1].x)>>]_vars

\* C10: (as claimed) whenever the compositor processes a quad fully in the
\* frame, old_width afterwards is |top_right.x - top_left.x| of that quad.
C10_StickyWidthTopRight ==
    [][(AdjustStep /\ FullyInFrame(corners)) =>
          old_width' = <<Abs(corners[3].x - corners[1].x)>>]_vars

\* C10, its case: a quad fully in the frame whose right corners are not
\* above each other has been composited.
C10_Witness ==
    /\ called = "insert_logo"
    /\ detection_successful
    /\ raised = "none"
    /\ FullyInFrame(corners)
    /\ corners[3].x # corners[2].x
    /\ old_width = <<Abs(corners[2].x - corners[1].x)>>
    /\ frame[1].painted # {}

----------------------------------------------------------------------------
(* Properties of the stabilisation and of the series smoother.             *)

\* The four x-coordinates of a record.
XCoords(r) == <<r.x_top_left, r.x_top_right, r.x_bot_left, r.x_bot_right>>

\* C4: (as claimed) the stabilisation is idempotent: a run on the store a
\* first run produced flags no frame as unstable and changes no
\* x-coordinate of any record.
C4_Idempotent ==
    smooth_runs >= 2 =>
        /\ unstable.left = {}
        /\ unstable.right = {}
        /\ DOMAIN saved_points = DOMAIN points_before
        /\ \A k \in DOMAIN saved_points :
               XCoords(saved_points[k]) = XCoords(points_before[k])

\* The odd window sizes of range(min_window, max_window).
OddWindows ==
    {w \in model_parameters.min_window..(model_parameters.max_window - 1) :
        w % 2 = 1}

\* The filter accepts every odd window: none is longer than the series and
\* each is above the polynomial order.
ValidWindows ==
    \A w \in OddWindows : w <= Len(series) /\ model_parameters.poly_degree < w

\* The output of the filter with window w stays strictly within the
\* threshold of the series, at every point.
Passing(w) ==
    LET new == savgol_filter(series, w, model_parameters.poly_degree)
    IN  \A i \in 1..Len(series) :
            Abs(new.dev[i]) < model_parameters.smooth_threshold * new.den

\* What C7 promises of a finished call.
SmootherGuarantee ==
    \/ /\ smoothed.status = "series"
       /\ Len(smoothed.dev) = Len(series)
       /\ \A i \in 1..Len(series) :
              Abs(smoothed.dev[i]) <
                  model_parameters.smooth_threshold * smoothed.den
       /\ smoothed.window \in OddWindows
       /\ Passing(smoothed.window)
       /\ \A w \in OddWindows : w > smoothed.window => ~Passing(w)
       /\ [dev |-> smoothed.dev, den |-> smoothed.den] =
              savgol_filter(series, smoothed.window,
                            model_parameters.poly_degree)
    \/ /\ smoothed.status = "empty"
       /\ \A w \in OddWindows : ~Passing(w)

\* C7: (amended) for every series and every window bounds whose odd windows
\* the filter accepts (none longer than the series, each above the
\* polynomial order), the smoother returns either a series as long as the
\* input, everywhere strictly within the threshold of it and equal to the
\* filter output of the largest passing odd window, or the empty result,
\* and the empty result exactly when no odd window passes.
C7_SmootherValidWindows ==
    (called = "__smooth_series" /\ ValidWindows) => SmootherGuarantee

\* C7: (as claimed) the same for every series and every window bounds.
C7_SmootherAnyWindows ==
    called = "__smooth_series" => SmootherGuarantee

\* C7, its case: of the windows 3 and 5 the larger fails and the smaller
\* passes, and the series returned differs from the input.
C7_Witness ==
    /\ called = "__smooth_series"
    /\ ValidWindows
    /\ OddWindows = {3, 5}
    /\ smoothed.status = "series"
    /\ smoothed.window = 3
    /\ ~Passing(5)
    /\ \E i \in 1..Len(series) : smoothed.dev[i] # 0

\* The frames of the window of frame x that exist.
WindowOf(x) == {p \in DOMAIN points_before : x - 10 <= p /\ p < x + 10}

\* What the left rule makes of frame p: the right side of the frame as the
\* run found it, less right_height * (6.6 * angle / 90).
LeftRebuilt(p) ==
    LET off == RDiv(features(points_before[p]).right_height * 66
                    * features(points_before[p]).angle, 9000)
    IN  <<points_before[p].x_top_right - off,
          points_before[p].x_bot_right - off>>

\* C11: (as claimed) the ratio-drift reconstruction leaves a flagged frame
\* alone and rebuilds a frame from that frame's own coordinates: after a
\* run that flagged frame x alone, and on the left only, every frame of the
\* window of x, x included, has the left side the window reconstruction
\* gave it from its own right side.
C11_DriftSkipsFlaggedFrame ==
    (smooth_runs = 1 /\ raised = "none" /\ unstable.right = {}) =>
        \A x \in unstable.left :
            unstable.left = {x} =>
                \A p \in WindowOf(x) :
                    <<saved_points[p].x_top_left, saved_points[p].x_bot_left>>
                        = LeftRebuilt(p)

\* The centroid x of the contours of a sequence.
CentroidXs(contours) == {contours[i].xm : i \in 1..Len(contours)}

\* The least and the greatest of a set of numbers.
Least(xs) == CHOOSE m \in xs : \A y \in xs : m <= y
Greatest(xs) == CHOOSE m \in xs : \A y \in xs : m >= y

\* The box points of the contours of a sequence whose centroid x is cx.
BoxPointsAt(contours, cx) ==
    UNION {{contours[i].box[j] : j \in 1..4} :
              i \in {i \in 1..Len(contours) : contours[i].xm = cx}}

\* C12: (as claimed) for every frame of the detection pass with a surviving
\* contour, whatever the order of the contours: a record is saved whose
\* top_left and bot_left are box points of the surviving contour with the
\* smallest centroid x and whose top_right and bot_right are box points of
\* the one with the largest; center_left is that smallest and center_right
\* that largest centroid x; and center_left <= center_right throughout.
C12_LeftmostRightmost ==
    before_smoothing =>
        /\ center_left # None => center_left[1] <= center_right[1]
        /\ \A k \in DOMAIN saved_frame_mask :
               LET kept == Survivors(video[k + 1])
                   lo   == Least(CentroidXs(kept))
                   hi   == Greatest(CentroidXs(kept))
               IN  kept # << >> =>
                       /\ k \in DOMAIN saved_points
                       /\ Pt(saved_points[k].x_top_left, saved_points[k].y_top_left)
                              \in BoxPointsAt(kept, lo)
                       /\ Pt(saved_points[k].x_bot_left, saved_points[k].y_bot_left)
                              \in BoxPointsAt(kept, lo)
                       /\ Pt(saved_points[k].x_top_right, saved_points[k].y_top_right)
                              \in BoxPointsAt(kept, hi)
                       /\ Pt(saved_points[k].x_bot_right, saved_points[k].y_bot_right)
                              \in BoxPointsAt(kept, hi)
                       /\ (k = frame_num - 1 /\ called = "detect_banner") =>
                              center_left = <<lo>> /\ center_right = <<hi>>

\* The step is a call of detect_banner in the replay pass that reads the
\* record of its frame for compositing.
ReadStep ==
    DetectStep /\ ~before_smoothing /\ raised' = "none" /\ detection_successful'

\* C13: over a replay pass the stabilisation runs at most once; it runs
\* only when every frame of the video has been through the detection pass;
\* the first record read for compositing is read from the store the
\* completed run left (for a video: the run is over and the one-shot flag
\* cleared); and every later frame reads that store as it is, with no
\* further run.
C13_StabilisedOnce ==
    [][/\ smooth_runs' <= 1
       /\ smooth_runs' # smooth_runs =>
              /\ DetectStep
              /\ ~before_smoothing
              /\ smooth_runs' = smooth_runs + 1
              /\ DOMAIN saved_frame_mask = 0..(Len(video) - 1)
       /\ ReadStep =>
              /\ model_parameters.source_type = 0 =>
                     smooth_runs' = 1 /\ ~load_smooth'
              /\ corners'[1] = Pt(saved_points'[frame_num].x_top_left,
                                  saved_points'[frame_num].y_top_left)
              /\ corners'[2] = Pt(saved_points'[frame_num].x_bot_right,
                                  saved_points'[frame_num].y_bot_right)
       /\ (ReadStep /\ smooth_runs = 1) =>
              smooth_runs' = 1 /\ saved_points' = saved_points]_vars

\* C13, its case: the replay of a long clip is over; the one run of the
\* stabilisation changed the store before the first frame was composited.
C13_Witness ==
    /\ ~before_smoothing
    /\ called = "insert_logo"
    /\ raised = "none"
    /\ Len(video) = MaxFrames
    /\ frame_num = Len(video)
    /\ smooth_runs = 1
    /\ ~load_smooth
    /\ detection_successful
    /\ saved_points # points_before
    /\ unstable.left # {}

\* C14: (as claimed) the sticky width is written before it is read: whenever
\* the compositor adjusts the logo to a quad cut by the right or the left
\* edge of the frame, old_width is set (an earlier frame, fully in the
\* frame, wrote it), and the call does not end in a TypeError.
C14_WidthSetBeforeUse ==
    [][(AdjustStep /\ (RightTruncated(corners) \/ LeftTruncated(corners))) =>
          old_width # None /\ raised' # "TypeError"]_vars

=============================================================================
